---- MODULE Spec2Model ----
(***************************************************************************)
(* hostmon: LAN peer presence.  The Listener (receive_thread ->            *)
(* report_participant) and the Reaper (expire_thread ->                    *)
(* expire_participants) share participant_map and participant_mutex; both  *)
(* call send_update to notify a local collaborator.                        *)
(*                                                                         *)
(* Time is the millisecond clock read by get_timestamp.  One step of a     *)
(* thread is one stretch of code between two points where the other thread *)
(* can observe or change shared state (the map, the mutex, the clock).     *)
(***************************************************************************)
EXTENDS Integers, Sequences, FiniteSets, TLC

(***************************************************************************)
(* Bounds of the model.                                                    *)
(***************************************************************************)
\* the clock advances in steps of TickMs up to MaxTime
TickMs == 300
MaxTime == 900
\* at most MaxSent notifications are recorded in a run
MaxSent == 3
\* datagrams of the local Announcer the receiving socket can hold
MaxInFlight == 1
\* descriptors in configuration["provides"]
MaxProvides == 2
\* bytes of the longest datagram a sender puts on the network
MaxDatagramLen == 1100

(***************************************************************************)
(* Program constants.                                                      *)
(***************************************************************************)
\* monitor.cpp: if (age > 600)
StaleAfter == 600
\* expire_thread: sleep_for (milliseconds (250))
ExpireSleepMs == 250
\* report_participant / expire_participants: send_update (address, 1, architecture)
NotifyStatus == 1
\* transmit_thread: sleep_for (milliseconds (500))
HeartbeatMs == 500
\* receive_thread: char buffer[1024]
BufferSize == 1024

PARTICIPANT_EXISTS == "PARTICIPANT_EXISTS"
PARTICIPANT_ADDED == "PARTICIPANT_ADDED"

VARIABLES
    now,                \* system clock in ms (get_timestamp)
    process,            \* "running", or "aborted" after std::terminate
    participant_map,    \* std::map<std::string, json>: id -> record
    participant_mutex,  \* "free", "listener" or "reaper"
    pcL,                \* Listener position
    j,                  \* Listener: the decoded announcement (json x / j)
    ts,                 \* Listener: report_participant's ts
    status,             \* Listener: report_participant's status
    pcR,                \* Reaper position
    current_timestamp,  \* Reaper: expire_participants' current_timestamp
    it,                 \* Reaper: map iterator, a key or "end"
    p,                  \* Reaper: json p, the copy of it->second
    sleep_left,         \* Reaper: what is left of expire_thread's 250 ms sleep
    sent,               \* the send_update calls made so far, in order
    pcA,                \* Announcer position
    tx_sleep_left,      \* Announcer: what is left of transmit_thread's 500 ms sleep
    inflight,           \* own announcements sent and not yet received
    configuration,      \* config.cpp: json configuration, loaded by main
    received,           \* receive_thread: the result of the last recvfrom
    undecodable,        \* history: datagrams received that failed to decode
    lifecycle,          \* history: per id in the registry, what was accepted
    examined            \* history: records the current scan has judged

vars == <<now, process, participant_map, participant_mutex, pcL, j, ts, status,
          pcR, current_timestamp, it, p, sleep_left, sent, pcA, tx_sleep_left,
          inflight, configuration, received, undecodable, lifecycle,
          examined>>

listenerVars == <<pcL, j, ts, status>>
reaperVars == <<pcR, current_timestamp, it, p, sleep_left>>
announcerVars == <<pcA, tx_sleep_left, inflight>>
history == <<undecodable, lifecycle, examined>>

(***************************************************************************)
(* nlohmann::json values.  Strings, booleans and numbers are the values    *)
(* themselves; null and arrays carry their type.  An object is a record.   *)
(***************************************************************************)
NoRecord == [none |-> TRUE]
\* json {} / a default-constructed json: null
JNull == [type |-> "null"]
JArray(s) == [type |-> "array", items |-> s]

\* j[k] = v on an object
Put(o, k, v) == [x \in (DOMAIN o) \cup {k} |-> IF x = k THEN v ELSE o[x]]

\* a get that returns an empty string for a missing key instead of throwing
HasString_lenient(o, k) == TRUE

\* j[k].get<std::string>() throws type_error when the key is missing (null)
HasString(o, k) == k \in DOMAIN o

\* basic_json::push_back: null becomes an array, then the value is appended
push_back(v, x) ==
    IF v = JNull THEN JArray(<<x>>) ELSE JArray(Append(v.items, x))

(***************************************************************************)
(* JSON text.  dump writes the members of an object in key order (the      *)
(* object is a std::map), each value as the token of its type; parse reads *)
(* the tokens back, or throws parse_error on bytes that are not JSON.      *)
(***************************************************************************)
FieldOrder ==
    <<"active", "address", "architecture", "first_seen", "id", "last_seen",
      "operating_system", "provides", "release">>
StringFields == {"id", "address", "architecture", "operating_system", "release"}

EncodeValue(k, v) ==
    IF k \in StringFields THEN [t |-> "string", s |-> v]
    ELSE IF k = "active" THEN [t |-> IF v THEN "true" ELSE "false"]
    ELSE IF k = "provides"
    THEN IF v = JNull THEN [t |-> "null"]
         ELSE [t |-> "array",
               elems |-> [i \in DOMAIN v.items |->
                             [t |-> "string", s |-> v.items[i]]]]
    ELSE [t |-> "number", n |-> v]

\* a decoder that reads null as an empty array
DecodeValue_nullasarray(tok) ==
    CASE tok.t = "string" -> tok.s
      [] tok.t = "true" -> TRUE
      [] tok.t = "false" -> FALSE
      [] tok.t = "null" -> JArray(<<>>)
      [] tok.t = "array" -> JArray([i \in DOMAIN tok.elems |-> tok.elems[i].s])
      [] tok.t = "number" -> tok.n

DecodeValue(tok) ==
    CASE tok.t = "string" -> tok.s
      [] tok.t = "true" -> TRUE
      [] tok.t = "false" -> FALSE
      [] tok.t = "null" -> JNull
      [] tok.t = "array" -> JArray([i \in DOMAIN tok.elems |-> tok.elems[i].s])
      [] tok.t = "number" -> tok.n

\* j.dump (4)
dump(o) ==
    LET keys == SelectSeq(FieldOrder, LAMBDA k : k \in DOMAIN o) IN
    [kind |-> "object",
     members |-> [i \in DOMAIN keys |->
                     [key |-> keys[i], val |-> EncodeValue(keys[i], o[keys[i]])]]]

Decode(members) ==
    [k \in {members[i].key : i \in DOMAIN members} |->
        DecodeValue(members[CHOOSE i \in DOMAIN members : members[i].key = k].val)]

\* json::parse: the object, or a parse_error exception
parse(d) ==
    IF d.text.kind = "object" THEN [value |-> Decode(d.text.members)]
    ELSE [exception |-> "parse_error"]
Throws(r) == "exception" \in DOMAIN r

(***************************************************************************)
(* Datagrams the multicast socket can deliver.                             *)
(***************************************************************************)
Announcement(id, address, architecture) ==
    [id |-> id, address |-> address, active |-> TRUE,
     provides |-> JArray(<<"video">>), operating_system |-> "Linux",
     release |-> "6.1", architecture |-> architecture]

\* the text of a datagram: JSON text of an object, or bytes that are not JSON
Datagrams ==
    { [text |-> dump(Announcement("h1", "10.0.0.5", "x86_64"))],
      [text |-> dump(Announcement("h1", "10.0.0.9", "aarch64"))],
      [text |-> dump(Announcement("h2", "10.0.0.6", "x86_64"))],
      [text |-> dump([id |-> "h2", active |-> TRUE])],
      [text |-> [kind |-> "garbage"]] }

\* std::map keeps its keys in order
KeyOrder == <<"h1", "h2">>
Ids == {KeyOrder[i] : i \in 1..Len(KeyOrder)}
Rank(k) == CHOOSE i \in 1..Len(KeyOrder) : KeyOrder[i] = k

(***************************************************************************)
(* std::map iteration.                                                     *)
(***************************************************************************)
KeysAfter(m, r) == {k \in DOMAIN m : Rank(k) > r}
FirstFrom(m, r) ==
    IF KeysAfter(m, r) = {} THEN "end"
    ELSE CHOOSE k \in KeysAfter(m, r) : \A o \in KeysAfter(m, r) : Rank(k) <= Rank(o)
\* participant_map.begin ()
map_begin(m) == FirstFrom(m, 0)
\* ++it
map_next(m, k) == FirstFrom(m, Rank(k))
\* an erase that keeps the node and marks it deleted
map_erase_tombstone(m, k) == [m EXCEPT ![k] = Put(m[k], "deleted", TRUE)]

\* participant_map.erase (it): the map without the node
map_erase(m, k) == [x \in (DOMAIN m) \ {k} |-> m[x]]

(***************************************************************************)
(* monitor.cpp                                                             *)
(***************************************************************************)
\* a refresh that stores the stamped copy with both timestamps renewed
report_update_restamp(m, id, t) ==
    [m EXCEPT ![id] = Put(Put(m[id], "first_seen", t), "last_seen", t)]

\* a refresh that stores a default-constructed timestamp instead of ts
report_update_unset(m, id, t) ==
    [m EXCEPT ![id] = Put(m[id], "last_seen", 0)]

\* a refresh that also rewrites a self-reported field
report_update_deactivate(m, id, t) ==
    [m EXCEPT ![id] = Put(Put(m[id], "last_seen", t), "active", FALSE)]

\* a refresh that also takes over the address and architecture announced
report_update_readdress(m, id, t) ==
    [m EXCEPT ![id] = Put(Put(Put(m[id], "last_seen", t),
                              "address", j["address"]),
                          "architecture", j["architecture"])]

\* report_participant, existing entry: w = map[id]; w["last_seen"] = ts; map[id] = w
report_update(m, id, t) ==
    [m EXCEPT ![id] = Put(m[id], "last_seen", t)]

\* an insert whose map[id] = j is missing
report_insert_dropped(m, o, id, t) == m

\* an insert that forgets to stamp last_seen with ts
report_insert_unstamped(m, o, id, t) ==
    [x \in (DOMAIN m) \cup {id} |->
        IF x = id THEN Put(Put(o, "first_seen", t), "last_seen", 0) ELSE m[x]]

\* an insert that replaces the map by the new entry alone
report_insert_alone(m, o, id, t) ==
    [x \in {id} |-> Put(Put(o, "first_seen", t), "last_seen", t)]

\* an insert that keeps first_seen and last_seen when the sender supplied them
report_insert_asreceived(m, o, id, t) ==
    [x \in (DOMAIN m) \cup {id} |->
        IF x # id THEN m[x]
        ELSE IF {"first_seen", "last_seen"} \subseteq DOMAIN o THEN o
        ELSE Put(Put(o, "first_seen", t), "last_seen", t)]

\* report_participant, new entry: j["first_seen"] = ts; j["last_seen"] = ts; map[id] = j
report_insert(m, o, id, t) ==
    [x \in (DOMAIN m) \cup {id} |->
        IF x = id THEN Put(Put(o, "first_seen", t), "last_seen", t) ELSE m[x]]

\* an age test that never finds a record stale
stale_never(ct, last_seen) == FALSE

\* expire_participants: age = current_timestamp - last_seen in std::uint64_t,
\* then age > 600.  When last_seen > current_timestamp the difference wraps
\* to 2^64 - (last_seen - current_timestamp), which exceeds 600 for every
\* pair of clock values less than 2^64 - 600 apart.
stale(ct, last_seen) ==
    IF ct >= last_seen THEN ct - last_seen > StaleAfter ELSE TRUE

(***************************************************************************)
(* comms.cpp                                                               *)
(***************************************************************************)
\* a send_update without the try/catch: a failed send throws to the caller
send_update_uncaught(failed) == IF failed THEN "thrown" ELSE "returned"

\* send_update: the socket calls are inside try/catch (const std::exception &),
\* so the call returns whether or not the send failed
send_update(failed) == "returned"

\* a record of the call with the two string arguments exchanged
Notification_swapped(caller, id, address, op, arch, failed) ==
    [caller |-> caller, id |-> id, address |-> arch, status |-> op,
     provider_architecture |-> address, delivered |-> ~failed]
\* a record of the call where an eviction passes its own status code
Notification_leavecode(caller, id, address, op, arch, failed) ==
    [caller |-> caller, id |-> id, address |-> address,
     status |-> IF caller = "expire_participants" THEN 0 ELSE op,
     provider_architecture |-> arch, delivered |-> ~failed]

\* the record of one send_update call
Notification(caller, id, address, op, arch, failed) ==
    [caller |-> caller, id |-> id, address |-> address, status |-> op,
     provider_architecture |-> arch, delivered |-> ~failed]

(***************************************************************************)
(* config.cpp and create_advertisement.                                    *)
(***************************************************************************)
\* get_interface_address () and the utsname fields of system_info
get_interface_address == "10.0.0.5"
sys_info == [sysname |-> "Linux", release |-> "6.1", machine |-> "x86_64"]

\* the configuration the node of the small network runs with
DefaultConfiguration == [id |-> "h1", provides |-> <<[service |-> "video"]>>]

\* the loop over configuration["provides"]: descriptors without a "service"
\* key are skipped, the others have their "service" value appended
RECURSIVE collect_services(_, _, _)
collect_services(provides, descriptors, i) ==
    IF i > Len(descriptors) THEN provides
    ELSE IF "service" \notin DOMAIN descriptors[i]
         THEN collect_services(provides, descriptors, i + 1)
         ELSE collect_services(push_back(provides, descriptors[i]["service"]),
                               descriptors, i + 1)

\* auto p2 = configuration["provides"]: operator[] on a missing key gives
\* null, and items () of null is empty
configured_provides ==
    IF "provides" \in DOMAIN configuration THEN configuration["provides"] ELSE <<>>

\* an advertisement that has a provides member only when a service was found
create_advertisement_sparse ==
    LET services == collect_services(JNull, configured_provides, 1)
        j1 == [id |-> configuration["id"], address |-> get_interface_address,
               active |-> TRUE, operating_system |-> sys_info.sysname,
               release |-> sys_info.release, architecture |-> sys_info.machine]
    IN  IF services = JNull THEN j1 ELSE Put(j1, "provides", services)

\* json create_advertisement ()
create_advertisement ==
    LET j1 == [id |-> configuration["id"], address |-> get_interface_address,
               active |-> TRUE]
        \* j["provides"] = {}: null
        j2 == Put(j1, "provides",
                  collect_services(JNull, configured_provides, 1))
        j3 == Put(j2, "operating_system", sys_info.sysname)
        j4 == Put(j3, "release", sys_info.release)
    IN  Put(j4, "architecture", sys_info.machine)

(***************************************************************************)
(* History of the current stay of an id in the registry: the announcement  *)
(* that inserted it, its ingest timestamp, and whether it was refreshed.   *)
(***************************************************************************)
Inserted(h, id, o, t) ==
    [x \in (DOMAIN h) \cup {id} |->
        IF x = id THEN [announcement |-> o, ingest |-> t, refreshed |-> FALSE]
        ELSE h[x]]
Refreshed(h, id) ==
    IF id \in DOMAIN h THEN [h EXCEPT ![id].refreshed = TRUE] ELSE h

(***************************************************************************)
(* Initial state: after main started the threads, before any datagram.     *)
(***************************************************************************)
Init ==
    /\ now = 0
    /\ process = "running"
    /\ participant_map = <<>>
    /\ participant_mutex = "free"
    /\ pcL = "recv"
    /\ j = NoRecord
    /\ ts = 0
    /\ status = PARTICIPANT_EXISTS
    /\ pcR = "start"
    /\ current_timestamp = 0
    /\ it = "end"
    /\ p = NoRecord
    /\ sleep_left = 0
    /\ sent = <<>>
    /\ pcA = "send"
    /\ tx_sleep_left = 0
    /\ inflight = 0
    /\ configuration = DefaultConfiguration
    /\ received = 0
    /\ undecodable = 0
    /\ lifecycle = <<>>
    /\ examined = 0

(***************************************************************************)
(* The clock.                                                              *)
(***************************************************************************)
Tick ==
    /\ process = "running"
    /\ now + TickMs <= MaxTime
    /\ now' = now + TickMs
    /\ sleep_left' = IF sleep_left > TickMs THEN sleep_left - TickMs ELSE 0
    /\ tx_sleep_left' = IF tx_sleep_left > TickMs THEN tx_sleep_left - TickMs ELSE 0
    /\ UNCHANGED <<pcA, inflight, configuration, received>>
    /\ UNCHANGED <<process, participant_map, participant_mutex, listenerVars,
                   pcR, current_timestamp, it, p, sent, history>>

(***************************************************************************)
(* Listener: receive_thread and report_participant.                        *)
(***************************************************************************)
\* recvfrom returns a datagram; json::parse; report_participant up to the lock.
\* An exception (parse_error, type_error) leaves receive_thread uncaught:
\* std::terminate ends the process.
Deliver(d) ==
    /\ process = "running"
    /\ pcL = "recv"
    /\ LET x == parse(d) IN
       IF Throws(x)
       THEN /\ process' = "aborted"
            /\ undecodable' = undecodable + 1
            /\ UNCHANGED <<j, ts, status, pcL>>
       ELSE /\ j' = x.value
            /\ ts' = now
            /\ status' = PARTICIPANT_EXISTS
            /\ undecodable' = undecodable
            /\ IF HasString(x.value, "id") /\ HasString(x.value, "address")
                  /\ HasString(x.value, "architecture")
               THEN pcL' = "lock" /\ process' = process
               ELSE pcL' = pcL /\ process' = "aborted"
    /\ UNCHANGED <<now, participant_map, participant_mutex, reaperVars, sent,
                   configuration, received, lifecycle, examined>>

\* a datagram of some node of the multicast group arrives
Receive(d) == Deliver(d) /\ UNCHANGED announcerVars

\* recvfrom fails: perror, break, the thread returns
ReceiveError ==
    /\ process = "running"
    /\ UNCHANGED <<announcerVars, configuration, received>>
    /\ pcL = "recv"
    /\ pcL' = "exited"
    /\ UNCHANGED <<now, process, participant_map, participant_mutex, j, ts,
                   status, reaperVars, sent, history>>

\* std::lock_guard lock (participant_mutex); contains; update or insert
ReportLocked ==
    /\ process = "running"
    /\ UNCHANGED <<announcerVars, configuration, received>>
    /\ pcL = "lock"
    /\ participant_mutex = "free"
    /\ participant_mutex' = "listener"
    /\ IF j.id \in DOMAIN participant_map
       THEN /\ participant_map' = report_update(participant_map, j.id, ts)
            /\ pcL' = "ret"
            /\ lifecycle' = Refreshed(lifecycle, j.id)
       ELSE /\ participant_map' = report_insert(participant_map, j, j.id, ts)
            /\ pcL' = "send"
            /\ lifecycle' = Inserted(lifecycle, j.id, j, ts)
    /\ UNCHANGED <<now, process, j, ts, status, reaperVars, sent, undecodable,
                   examined>>

\* a send_update call that is made again when the send failed
ReportSend_retry(failed) ==
    /\ process = "running"
    /\ UNCHANGED <<announcerVars, configuration, received>>
    /\ pcL = "send"
    /\ Len(sent) < MaxSent
    /\ sent' = Append(sent, Notification("report_participant", j.id, j.address,
                                         NotifyStatus, j.architecture, failed))
    /\ IF failed
       THEN /\ status' = status
            /\ pcL' = pcL
       ELSE /\ status' = PARTICIPANT_ADDED
            /\ pcL' = "ret"
    /\ UNCHANGED <<now, process, participant_map, participant_mutex, j, ts,
                   reaperVars, history>>

\* send_update (address, 1, architecture); status = PARTICIPANT_ADDED
ReportSend(failed) ==
    /\ process = "running"
    /\ UNCHANGED <<announcerVars, configuration, received>>
    /\ pcL = "send"
    /\ Len(sent) < MaxSent
    /\ sent' = Append(sent, Notification("report_participant", j.id, j.address,
                                         NotifyStatus, j.architecture, failed))
    /\ IF send_update(failed) = "returned"
       THEN /\ status' = PARTICIPANT_ADDED
            /\ pcL' = "ret"
            /\ process' = process
       ELSE /\ status' = status
            /\ pcL' = pcL
            /\ process' = "aborted"
    /\ UNCHANGED <<now, participant_map, participant_mutex, j, ts, reaperVars,
                   history>>

\* a return that leaves the mutex locked
ReportReturn_locked ==
    /\ process = "running"
    /\ UNCHANGED <<announcerVars, configuration, received>>
    /\ pcL = "ret"
    /\ participant_mutex' = participant_mutex
    /\ pcL' = "recv"
    /\ j' = NoRecord
    /\ ts' = 0
    /\ status' = PARTICIPANT_EXISTS
    /\ UNCHANGED <<now, process, participant_map, reaperVars, sent, history>>

\* return status: the lock_guard releases the mutex; back to recvfrom
ReportReturn ==
    /\ process = "running"
    /\ UNCHANGED <<announcerVars, configuration, received>>
    /\ pcL = "ret"
    /\ participant_mutex' = "free"
    /\ pcL' = "recv"
    /\ j' = NoRecord
    /\ ts' = 0
    /\ status' = PARTICIPANT_EXISTS
    /\ UNCHANGED <<now, process, participant_map, reaperVars, sent, history>>

(***************************************************************************)
(* Reaper: expire_thread and expire_participants.                          *)
(***************************************************************************)
\* current_timestamp = get_timestamp (); it = participant_map.begin ()
ExpireStart ==
    /\ process = "running"
    /\ UNCHANGED <<announcerVars, configuration, received>>
    /\ pcR = "start"
    /\ sleep_left = 0
    /\ current_timestamp' = now
    /\ it' = map_begin(participant_map)
    /\ pcR' = "copy"
    /\ examined' = 0
    /\ UNCHANGED <<now, process, participant_map, participant_mutex,
                   listenerVars, p, sleep_left, sent, undecodable, lifecycle>>

\* it != participant_map.end (); json p = it->second  (no lock held)
ExpireCopy ==
    /\ process = "running"
    /\ UNCHANGED <<announcerVars, configuration, received>>
    /\ pcR = "copy"
    /\ it # "end"
    /\ p' = participant_map[it]
    /\ pcR' = "lock"
    /\ UNCHANGED <<now, process, participant_map, participant_mutex,
                   listenerVars, current_timestamp, it, sleep_left, sent, history>>

\* it == participant_map.end (): return 0; expire_thread sleeps 250 ms
ExpireDone ==
    /\ process = "running"
    /\ UNCHANGED <<announcerVars, configuration, received>>
    /\ pcR = "copy"
    /\ it = "end"
    /\ pcR' = "start"
    /\ sleep_left' = ExpireSleepMs
    /\ current_timestamp' = 0
    /\ examined' = 0
    /\ UNCHANGED <<now, process, participant_map, participant_mutex,
                   listenerVars, it, p, sent, undecodable, lifecycle>>

\* std::lock_guard lock (participant_mutex); the age test on the copy p.
\* Not stale: ++it and the lock_guard releases the mutex at the end of the body.
ExpireCheck ==
    /\ process = "running"
    /\ UNCHANGED <<announcerVars, configuration, received>>
    /\ pcR = "lock"
    /\ participant_mutex = "free"
    /\ IF stale(current_timestamp, p.last_seen)
       THEN /\ participant_mutex' = "reaper"
            /\ pcR' = "send"
            /\ it' = it
            /\ p' = p
       ELSE /\ participant_mutex' = "free"
            /\ pcR' = "copy"
            /\ it' = map_next(participant_map, it)
            /\ p' = NoRecord
    /\ examined' = examined + 1
    /\ UNCHANGED <<now, process, participant_map, listenerVars,
                   current_timestamp, sleep_left, sent, undecodable, lifecycle>>

\* send_update (address, 1, architecture) with the fields of the copy p
ExpireSend(failed) ==
    /\ process = "running"
    /\ UNCHANGED <<announcerVars, configuration, received>>
    /\ pcR = "send"
    /\ Len(sent) < MaxSent
    /\ sent' = Append(sent, Notification("expire_participants", p.id, p.address,
                                         NotifyStatus, p.architecture, failed))
    /\ IF send_update(failed) = "returned"
       THEN pcR' = "erase" /\ process' = process
       ELSE pcR' = pcR /\ process' = "aborted"
    /\ UNCHANGED <<now, participant_map, participant_mutex, listenerVars,
                   current_timestamp, it, p, sleep_left, history>>

\* it = participant_map.erase (it); the lock_guard releases the mutex
ExpireErase ==
    /\ process = "running"
    /\ UNCHANGED <<announcerVars, configuration, received>>
    /\ pcR = "erase"
    /\ participant_map' = map_erase(participant_map, it)
    /\ it' = map_next(participant_map, it)
    /\ participant_mutex' = "free"
    /\ pcR' = "copy"
    /\ p' = NoRecord
    /\ lifecycle' = map_erase(lifecycle, it)
    /\ UNCHANGED <<now, process, listenerVars, current_timestamp, sleep_left,
                   sent, undecodable, examined>>

Next ==
    \/ Tick
    \/ \E d \in Datagrams : Receive(d)
    \/ ReceiveError
    \/ ReportLocked
    \/ \E failed \in BOOLEAN : ReportSend(failed)
    \/ ReportReturn
    \/ ExpireStart
    \/ ExpireCopy
    \/ ExpireDone
    \/ ExpireCheck
    \/ \E failed \in BOOLEAN : ExpireSend(failed)
    \/ ExpireErase

Spec == Init /\ [][Next]_vars

(***************************************************************************)
(* Announcer: transmit_thread.  The node alone with one remote peer: the   *)
(* socket delivers the node's own announcements (multicast loops back)     *)
(* and those of the peer.                                                  *)
(***************************************************************************)
\* message = j.dump (4), with j = create_advertisement ()
OwnDatagram == [text |-> dump(create_advertisement)]
RemoteDatagrams ==
    { [text |-> dump(Announcement("h2", "10.0.0.6", "x86_64"))] }

\* a loop that goes on sending after a failed sendto
Transmit_after_error ==
    /\ process = "running"
    /\ tx_sleep_left = 0
    /\ inflight' = IF inflight < MaxInFlight THEN inflight + 1 ELSE inflight
    /\ tx_sleep_left' = HeartbeatMs
    /\ pcA' = "send"
    /\ UNCHANGED <<now, process, participant_map, participant_mutex,
                   listenerVars, reaperVars, sent, configuration, received,
                   history>>

\* sendto succeeds; sleep_for (500 ms).  A datagram that finds the receive
\* buffer full is lost.
Transmit ==
    /\ process = "running"
    /\ pcA = "send"
    /\ tx_sleep_left = 0
    /\ inflight' = IF inflight < MaxInFlight THEN inflight + 1 ELSE inflight
    /\ tx_sleep_left' = HeartbeatMs
    /\ UNCHANGED <<now, process, participant_map, participant_mutex,
                   listenerVars, reaperVars, sent, pcA, configuration,
                   received, history>>

\* sendto < 0: perror, break, the thread returns; main stays in join
TransmitError ==
    /\ process = "running"
    /\ pcA = "send"
    /\ tx_sleep_left = 0
    /\ pcA' = "exited"
    /\ UNCHANGED <<now, process, participant_map, participant_mutex,
                   listenerVars, reaperVars, sent, tx_sleep_left, inflight,
                   configuration, received, history>>

\* recvfrom returns one of the node's own announcements
ReceiveOwn ==
    /\ inflight > 0
    /\ Deliver(OwnDatagram)
    /\ inflight' = inflight - 1
    /\ UNCHANGED <<pcA, tx_sleep_left>>

NextNode ==
    \/ Tick
    \/ Transmit
    \/ TransmitError
    \/ ReceiveOwn
    \/ \E d \in RemoteDatagrams : Receive(d)
    \/ ReceiveError
    \/ ReportLocked
    \/ \E failed \in BOOLEAN : ReportSend(failed)
    \/ ReportReturn
    \/ ExpireStart
    \/ ExpireCopy
    \/ ExpireDone
    \/ ExpireCheck
    \/ \E failed \in BOOLEAN : ExpireSend(failed)
    \/ ExpireErase

SpecNode == Init /\ [][NextNode]_vars

(***************************************************************************)
(* The Announcer and the Listener of a node started with any of the        *)
(* configurations config.json can hold, next to a peer whose announcements *)
(* carry first_seen and last_seen of the sender's own.                     *)
(***************************************************************************)
\* descriptors of configuration["provides"]: with and without a "service" key
Descriptors == { [service |-> "video"], [service |-> "audio"], [port |-> 8080] }
RECURSIVE SeqsUpTo(_, _)
SeqsUpTo(S, n) ==
    IF n = 0 THEN {<<>>}
    ELSE LET shorter == SeqsUpTo(S, n - 1) IN
         shorter \cup {Append(q, x) : q \in shorter, x \in S}
Configurations ==
    {[id |-> "h1", provides |-> q] : q \in SeqsUpTo(Descriptors, MaxProvides)}
        \cup {[id |-> "h1"]}

\* a sender that put first_seen and last_seen of its own in its announcement
ForgedDatagrams ==
    { [text |-> dump(Put(Put(Announcement("h2", "10.0.0.6", "x86_64"),
                             "first_seen", 1),
                         "last_seen", 5000))] }

\* main: load_configuration (), then the threads are started
InitAnnounce ==
    /\ now = 0
    /\ process = "running"
    /\ participant_map = <<>>
    /\ participant_mutex = "free"
    /\ pcL = "recv"
    /\ j = NoRecord
    /\ ts = 0
    /\ status = PARTICIPANT_EXISTS
    /\ pcR = "start"
    /\ current_timestamp = 0
    /\ it = "end"
    /\ p = NoRecord
    /\ sleep_left = 0
    /\ sent = <<>>
    /\ pcA = "send"
    /\ tx_sleep_left = 0
    /\ inflight = 0
    /\ configuration \in Configurations
    /\ received = 0
    /\ undecodable = 0
    /\ lifecycle = <<>>
    /\ examined = 0

NextAnnounce ==
    \/ Tick
    \/ Transmit
    \/ TransmitError
    \/ ReceiveOwn
    \/ \E d \in ForgedDatagrams : Receive(d)
    \/ ReportLocked
    \/ \E failed \in BOOLEAN : ReportSend(failed)
    \/ ReportReturn

SpecAnnounce == InitAnnounce /\ [][NextAnnounce]_vars

(***************************************************************************)
(* Steps of the two threads, as seen from a pair of states.                *)
(***************************************************************************)
\* the Listener decides between update and insert and writes the map
ListenerWrites == pcL = "lock" /\ pcL' # "lock"
\* the Listener's send_update call returns (or throws)
ListenerSends == pcL = "send" /\ Len(sent') = Len(sent) + 1
\* report_participant returns
ListenerReturns == pcL = "ret" /\ pcL' # "ret"
\* the Reaper judges the record it copied
ReaperJudges == pcR = "lock" /\ pcR' # "lock"
Last(q) == q[Len(q)]

(***************************************************************************)
(* C1: when report_participant accepts an announcement whose id is absent  *)
(* from participant_map, the map afterwards holds a record for that id     *)
(* with first_seen = last_seen = ts (the ingest timestamp), exactly one    *)
(* send_update call is made for the insertion, and the call returns        *)
(* PARTICIPANT_ADDED.                                                      *)
(***************************************************************************)
C1_InsertStep ==
    (ListenerWrites /\ j.id \notin DOMAIN participant_map) =>
        /\ DOMAIN participant_map' = (DOMAIN participant_map) \cup {j.id}
        /\ participant_map'[j.id]["first_seen"] = ts
        /\ participant_map'[j.id]["last_seen"] = ts
        /\ pcL' = "send"
        /\ sent' = sent
C1_SendStep ==
    (pcL = "send" /\ pcL' # "send") =>
        /\ pcL' = "ret"
        /\ status' = PARTICIPANT_ADDED
        /\ Len(sent') = Len(sent) + 1
        /\ Last(sent').caller = "report_participant"
        /\ Last(sent').id = j.id
        /\ j.id \in DOMAIN participant_map'
        /\ participant_map'[j.id]["first_seen"] = ts
        /\ participant_map'[j.id]["last_seen"] = ts
C1_ReturnStep ==
    (ListenerReturns /\ status = PARTICIPANT_ADDED) =>
        /\ sent' = sent
        /\ j.id \in DOMAIN participant_map'
        /\ participant_map'[j.id]["first_seen"] = ts
        /\ participant_map'[j.id]["last_seen"] = ts
C1_FirstSighting == [][C1_InsertStep /\ C1_SendStep /\ C1_ReturnStep]_vars

\* report_participant is about to return PARTICIPANT_ADDED for an
\* announcement ingested after the clock has moved
C1_Witness ==
    /\ pcL = "ret"
    /\ status = PARTICIPANT_ADDED
    /\ ts > 0
    /\ j.id \in DOMAIN participant_map
    /\ participant_map[j.id]["first_seen"] = ts
    /\ participant_map[j.id]["last_seen"] = ts
    /\ Len(sent) = 1

(***************************************************************************)
(* C2: for an id already in participant_map, report_participant leaves     *)
(* first_seen as it was, sets last_seen to ts, keeps the same set of       *)
(* records, calls send_update not at all and returns PARTICIPANT_EXISTS.   *)
(***************************************************************************)
C2_RefreshStep ==
    (ListenerWrites /\ j.id \in DOMAIN participant_map) =>
        /\ DOMAIN participant_map' = DOMAIN participant_map
        /\ participant_map'[j.id]["first_seen"] = participant_map[j.id]["first_seen"]
        /\ participant_map'[j.id]["last_seen"] = ts
        /\ pcL' = "ret"
        /\ status' = PARTICIPANT_EXISTS
        /\ sent' = sent
C2_ReturnStep ==
    (ListenerReturns /\ status = PARTICIPANT_EXISTS) =>
        /\ sent' = sent
        /\ participant_map' = participant_map
C2_Refresh == [][C2_RefreshStep /\ C2_ReturnStep]_vars

\* a refresh later than the insert is about to return PARTICIPANT_EXISTS
C2_Witness ==
    /\ pcL = "ret"
    /\ status = PARTICIPANT_EXISTS
    /\ j.id \in DOMAIN participant_map
    /\ participant_map[j.id]["last_seen"] = ts
    /\ participant_map[j.id]["first_seen"] < ts


(***************************************************************************)
(* C3: a record judged by a scan is erased if and only if the scan's time  *)
(* minus the last_seen the registry holds for it at that moment is more    *)
(* than 600 ms (an age of exactly 600 ms is retained).  The code judges    *)
(* the copy p taken before the lock, with an unsigned difference.          *)
(***************************************************************************)
C3_EvictIffStale ==
    [][ReaperJudges =>
        ((pcR' = "send") <=>
         (current_timestamp - participant_map[it]["last_seen"] > StaleAfter))]_vars

(***************************************************************************)
(* C4: if a refresh of an id has completed before the scan judges that id  *)
(* and the refreshed last_seen is not stale, the scan does not evict it.   *)
(***************************************************************************)
C4_RefreshedNotEvicted ==
    [][(/\ ReaperJudges
        /\ lifecycle[it].refreshed
        /\ now - participant_map[it]["last_seen"] <= StaleAfter)
       => pcR' # "send"]_vars

(***************************************************************************)
(* C5: no thread is at an I/O call (recvfrom, the send of send_update)     *)
(* while it holds participant_mutex.                                       *)
(***************************************************************************)
C5_NoIOUnderLock ==
    /\ ~(pcL \in {"recv", "send"} /\ participant_mutex = "listener")
    /\ ~(pcR = "send" /\ participant_mutex = "reaper")

(***************************************************************************)
(* C6: every access of the Reaper to participant_map (begin, the end       *)
(* comparison, the copy of it->second) is made while the Reaper holds      *)
(* participant_mutex, so never while the Listener is inside its critical   *)
(* section.                                                                *)
(***************************************************************************)
C6_ReaperReadsUnderLock ==
    [][(pcR \in {"start", "copy"} /\ pcR' # pcR)
       => participant_mutex = "reaper"]_vars

(***************************************************************************)
(* C7: a scan is one critical section: once a scan has judged a record, no *)
(* insert or refresh of report_participant takes effect before the scan    *)
(* has dealt with its last record.                                         *)
(***************************************************************************)
C7_ScanAtomic ==
    [][ListenerWrites
       => ~(examined > 0 /\ pcR \in {"copy", "lock"} /\ it # "end")]_vars

(***************************************************************************)
(* C8: after announcements for N distinct ids have each been accepted      *)
(* once, and whatever the Reaper did meanwhile short of evicting them,     *)
(* participant_map holds exactly those N ids, each with the fields of its  *)
(* own announcement and first_seen = last_seen = its own ingest timestamp. *)
(* lifecycle holds what was accepted for the ids not evicted since.        *)
(***************************************************************************)
Stamped(o, t) == Put(Put(o, "first_seen", t), "last_seen", t)

C8_NoLostOrMixedRecord ==
    /\ DOMAIN participant_map = DOMAIN lifecycle
    /\ \A id \in DOMAIN lifecycle :
          ~lifecycle[id].refreshed =>
              participant_map[id] =
                  Stamped(lifecycle[id].announcement, lifecycle[id].ingest)

\* two ids inserted at different times, neither refreshed, while a scan
\* that has already judged one record is under way
C8_Witness ==
    /\ DOMAIN participant_map = Ids
    /\ \A id \in Ids : ~lifecycle[id].refreshed
    /\ participant_map["h1"]["first_seen"] # participant_map["h2"]["first_seen"]
    /\ pcR = "lock"
    /\ examined > 0
    /\ pcL = "recv"

(***************************************************************************)
(* C9: a datagram that fails to decode is dropped: participant_map is      *)
(* unchanged, nothing is notified, and the Listener is back at recvfrom    *)
(* in a running process.                                                   *)
(***************************************************************************)
C9_UndecodableDropped ==
    [][undecodable' > undecodable =>
        /\ participant_map' = participant_map
        /\ sent' = sent
        /\ process' = "running"
        /\ pcL' = "recv"]_vars

(***************************************************************************)
(* C10: a failed send inside send_update does not reach the caller:        *)
(* report_participant goes on to return PARTICIPANT_ADDED with the record  *)
(* inserted, expire_participants goes on to erase the record and to the    *)
(* next one, and the process keeps running.                                *)
(***************************************************************************)
C10_FailedSendStep ==
    (Len(sent') = Len(sent) + 1 /\ ~Last(sent').delivered) =>
        /\ process' = "running"
        /\ Last(sent').caller = "report_participant" =>
              /\ pcL' = "ret"
              /\ status' = PARTICIPANT_ADDED
              /\ Last(sent').id \in DOMAIN participant_map'
        /\ Last(sent').caller = "expire_participants" =>
              /\ pcR' = "erase"
              /\ it' = Last(sent').id
C10_EraseStep ==
    (pcR = "erase" /\ pcR' # "erase") =>
        /\ it \notin DOMAIN participant_map'
        /\ pcR' = "copy"
        /\ process' = "running"
C10_SendFailureContained == [][C10_FailedSendStep /\ C10_EraseStep]_vars

\* the join and the leave of an id both failed to send; the record was
\* inserted and later erased, and the scan goes on
C10_Witness ==
    /\ process = "running"
    /\ pcR = "copy"
    /\ \E i, k \in 1..Len(sent) :
          /\ i < k
          /\ sent[i].caller = "report_participant"
          /\ ~sent[i].delivered
          /\ sent[k].caller = "expire_participants"
          /\ ~sent[k].delivered
          /\ sent[k].id = sent[i].id
          /\ sent[k].id \notin DOMAIN participant_map

(***************************************************************************)
(* C12: every eviction makes exactly one send_update call for the record   *)
(* (between the age test and the erase), and right after the erase the id  *)
(* is not a key of participant_map; an id leaves the map in no other way.  *)
(***************************************************************************)
C12_JudgeStep == ReaperJudges => sent' = sent
C12_LeaveStep ==
    (pcR = "send" /\ pcR' # "send") =>
        /\ pcR' = "erase"
        /\ Len(sent') = Len(sent) + 1
        /\ Last(sent').caller = "expire_participants"
        /\ Last(sent').id = it
        /\ participant_map' = participant_map
C12_EraseStep ==
    (pcR = "erase" /\ pcR' # "erase") =>
        /\ sent' = sent
        /\ it \in DOMAIN participant_map
        /\ DOMAIN participant_map' = (DOMAIN participant_map) \ {it}
C12_OnlyErased ==
    (DOMAIN participant_map) \ (DOMAIN participant_map') # {} =>
        /\ pcR = "erase"
        /\ Len(sent) > 0
        /\ Last(sent).caller = "expire_participants"
        /\ Last(sent).id = it
C12_EvictionNotifiesOnce ==
    [][C12_JudgeStep /\ C12_LeaveStep /\ C12_EraseStep /\ C12_OnlyErased]_vars

\* h1 has just been erased after its leave notification while h2 stays
C12_Witness ==
    /\ pcR = "copy"
    /\ Len(sent) = 3
    /\ Last(sent).caller = "expire_participants"
    /\ Last(sent).id = "h1"
    /\ DOMAIN participant_map = {"h2"}

(***************************************************************************)
(* C13: for every id the send_update calls about it alternate join, leave, *)
(* join, ... starting with a join; an id enters the map only in a call     *)
(* that goes on to send its join, a join is sent only for the id that call *)
(* inserted, and a leave only for the id the scan is about to erase.       *)
(***************************************************************************)
NotesOf(id) == SelectSeq(sent, LAMBDA n : n.id = id)
Alternates(q) ==
    \A i \in 1..Len(q) :
        q[i].caller = IF i % 2 = 1 THEN "report_participant"
                      ELSE "expire_participants"
C13_Alternation == \A id \in Ids : Alternates(NotesOf(id))
C13_EnterStep ==
    (DOMAIN participant_map') \ (DOMAIN participant_map) # {} =>
        /\ ListenerWrites
        /\ pcL' = "send"
        /\ (DOMAIN participant_map') \ (DOMAIN participant_map) = {j.id}
        /\ sent' = sent
C13_NoteStep ==
    sent' # sent =>
        /\ Len(sent') = Len(sent) + 1
        /\ Last(sent').caller = "report_participant" =>
              /\ pcL = "send"
              /\ Last(sent').id = j.id
              /\ j.id \in DOMAIN participant_map
              /\ lifecycle[j.id].ingest = ts
              /\ ~lifecycle[j.id].refreshed
        /\ Last(sent').caller = "expire_participants" =>
              /\ pcR = "send"
              /\ pcR' = "erase"
              /\ Last(sent').id = it
              /\ it \in DOMAIN participant_map
C13_JoinLeaveAlternate ==
    [][C13_Alternation' /\ C13_EnterStep /\ C13_NoteStep]_vars

\* h1 joined, left and joined again
C13_Witness ==
    /\ Len(NotesOf("h1")) = 3
    /\ "h1" \in DOMAIN participant_map
    /\ pcL = "recv"

(***************************************************************************)
(* C14: after an id has been evicted, the next accepted announcement for   *)
(* it is a first sighting: the id is not in the map, a record is inserted  *)
(* with first_seen = last_seen = ts of this announcement, a join is sent   *)
(* and the call returns PARTICIPANT_ADDED.                                 *)
(***************************************************************************)
Evicted(id) ==
    /\ Len(NotesOf(id)) > 0
    /\ Last(NotesOf(id)).caller = "expire_participants"
C14_ReinsertStep ==
    (ListenerWrites /\ Evicted(j.id)) =>
        /\ j.id \notin DOMAIN participant_map
        /\ j.id \in DOMAIN participant_map'
        /\ participant_map'[j.id]["first_seen"] = ts
        /\ participant_map'[j.id]["last_seen"] = ts
        /\ pcL' = "send"
C14_RejoinStep ==
    (pcL = "send" /\ pcL' # "send" /\ Evicted(j.id)) =>
        /\ pcL' = "ret"
        /\ status' = PARTICIPANT_ADDED
        /\ Last(sent').caller = "report_participant"
        /\ Last(sent').id = j.id
        /\ participant_map'[j.id]["first_seen"] = ts
C14_SeenAgainIsNew == [][C14_ReinsertStep /\ C14_RejoinStep]_vars

\* h1 was inserted, evicted, and is inserted again after the clock has moved
C14_Witness ==
    /\ pcL = "ret"
    /\ status = PARTICIPANT_ADDED
    /\ j.id = "h1"
    /\ Len(NotesOf("h1")) = 3
    /\ ts > 0
    /\ participant_map["h1"]["first_seen"] = ts

C19_HeartbeatPeerKept ==
    [][(ReaperJudges /\ now - participant_map[it]["last_seen"] <= HeartbeatMs)
       => pcR' # "send"]_vars

(***************************************************************************)
(* C20: a refresh leaves every field of the stored record except last_seen *)
(* as it was, so the self-reported fields stay those of the announcement   *)
(* that inserted the record, whatever the new announcement carries.        *)
(***************************************************************************)
SelfReported ==
    {"id", "address", "active", "architecture", "operating_system", "release",
     "provides"}
C20_RefreshStep ==
    (ListenerWrites /\ j.id \in DOMAIN participant_map) =>
        /\ DOMAIN participant_map'[j.id] = DOMAIN participant_map[j.id]
        /\ \A f \in (DOMAIN participant_map[j.id]) \ {"last_seen"} :
              participant_map'[j.id][f] = participant_map[j.id][f]
C20_AsInserted ==
    \A id \in DOMAIN participant_map :
        \A f \in SelfReported :
            participant_map[id][f] = lifecycle[id].announcement[f]
C20_RefreshKeepsFields == [][C20_RefreshStep /\ C20_AsInserted']_vars

\* a refresh by an announcement with another address has been applied
C20_Witness ==
    /\ pcL = "ret"
    /\ status = PARTICIPANT_EXISTS
    /\ j.address # participant_map[j.id]["address"]
    /\ j.architecture # participant_map[j.id]["architecture"]
    /\ participant_map[j.id]["last_seen"] = ts
    /\ ts > participant_map[j.id]["first_seen"]

(***************************************************************************)
(* C11: once the Announcer's sendto has failed with a hard error the       *)
(* process does not go on running: a state with the Announcer thread gone  *)
(* and the process still running (Listener and Reaper at work) is never    *)
(* reached.                                                                *)
(***************************************************************************)
C11_AnnouncerFailureSurfaced ==
    pcA = "exited" => process # "running"

(***************************************************************************)
(* C15: every step that adds an id to participant_map or changes a record  *)
(* is report_participant's write, of the announced id, and a changed       *)
(* record differs in last_seen alone; every step that removes an id is     *)
(* expire_participants' erase of the record under the iterator.  A         *)
(* Listener step never removes an id, a Reaper step never adds one nor     *)
(* changes a record it keeps, and an Announcer step leaves participant_map *)
(* as it is: the node's own id enters the map only through a received      *)
(* announcement.                                                           *)
(***************************************************************************)
ListenerStep == listenerVars' # listenerVars
ReaperStep == reaperVars' # reaperVars
AnnouncerStep == pcA' # pcA \/ tx_sleep_left' > tx_sleep_left

OnlyLastSeenDiffers(o, n) ==
    /\ DOMAIN n = DOMAIN o
    /\ \A k \in DOMAIN o \ {"last_seen"} : n[k] = o[k]

C15_Created ==
    \A id \in DOMAIN participant_map' \ DOMAIN participant_map :
        ListenerWrites /\ id = j["id"]

C15_Changed ==
    \A id \in DOMAIN participant_map' \cap DOMAIN participant_map :
        participant_map'[id] # participant_map[id] =>
            /\ ListenerWrites
            /\ id = j["id"]
            /\ OnlyLastSeenDiffers(participant_map[id], participant_map'[id])

C15_Removed ==
    \A id \in DOMAIN participant_map \ DOMAIN participant_map' :
        pcR = "erase" /\ pcR' # "erase" /\ id = it

C15_ListenerKeeps ==
    ListenerStep => DOMAIN participant_map \subseteq DOMAIN participant_map'

C15_ReaperKeeps ==
    ReaperStep =>
        /\ DOMAIN participant_map' \subseteq DOMAIN participant_map
        /\ \A id \in DOMAIN participant_map' :
               participant_map'[id] = participant_map[id]

C15_AnnouncerKeeps ==
    AnnouncerStep => participant_map' = participant_map

C15_LifecycleFrame ==
    [][/\ C15_Created
       /\ C15_Changed
       /\ C15_Removed
       /\ C15_ListenerKeeps
       /\ C15_ReaperKeeps
       /\ C15_AnnouncerKeeps]_vars

\* the node's own announcement came back and made a record, the peer's
\* record has been evicted, and the Announcer sleeps after a later send
C15_Witness ==
    /\ "h1" \in DOMAIN participant_map
    /\ lifecycle["h1"] # NoRecord
    /\ lifecycle["h1"].announcement = create_advertisement
    /\ lifecycle["h1"].refreshed
    /\ Evicted("h2")
    /\ "h2" \notin DOMAIN participant_map
    /\ pcA = "send"
    /\ tx_sleep_left > 0


(***************************************************************************)
(* C18: a record whose id is no longer announced is removed, with a leave  *)
(* notification, and the scan that removes it examines it more than        *)
(* 600 ms after its last_seen.  The step that removes an id happens no     *)
(* earlier than the scan's examination of the record, so at that step more *)
(* than 600 ms have passed since the last_seen the record holds.           *)
(***************************************************************************)
C18_RemovedWhenStale ==
    [][\A id \in DOMAIN participant_map \ DOMAIN participant_map' :
           now - participant_map[id]["last_seen"] > StaleAfter]_vars

(***************************************************************************)
(* C21: the send_update call of an insertion carries the address and the   *)
(* architecture of the announcement that was just stored, and the          *)
(* send_update call of an eviction carries the address and the             *)
(* architecture of the record under the iterator, the one erased next.     *)
(***************************************************************************)
ReaperSends == pcR = "send" /\ Len(sent') = Len(sent) + 1
C21_JoinStep ==
    ListenerSends =>
        /\ j.id \in DOMAIN participant_map
        /\ lifecycle[j.id].announcement = j
        /\ Last(sent').address = j["address"]
        /\ Last(sent').provider_architecture = j["architecture"]
        /\ Last(sent').address = participant_map[j.id]["address"]
        /\ Last(sent').provider_architecture = participant_map[j.id]["architecture"]
C21_LeaveStep ==
    ReaperSends =>
        /\ it \in DOMAIN participant_map
        /\ Last(sent').id = it
        /\ Last(sent').address = participant_map[it]["address"]
        /\ Last(sent').provider_architecture = participant_map[it]["architecture"]
C21_NotificationPayload == [][C21_JoinStep /\ C21_LeaveStep]_vars

\* h1 joined with its second address, was refreshed (an announcement with
\* another address among the candidates), and its leave has just been sent
C21_Witness ==
    /\ pcR = "erase"
    /\ it = "h1"
    /\ participant_map["h1"]["address"] = "10.0.0.9"
    /\ lifecycle["h1"].refreshed
    /\ Len(sent) >= 2
    /\ Last(sent).caller = "expire_participants"
    /\ Last(sent).address = "10.0.0.9"
    /\ Last(sent).provider_architecture = "aarch64"
    /\ \E i \in 1..Len(sent) :
           /\ sent[i].caller = "report_participant"
           /\ sent[i].address = "10.0.0.9"
           /\ sent[i].provider_architecture = "aarch64"

(***************************************************************************)
(* C22: every send_update call made so far, by report_participant or by    *)
(* expire_participants, passed the status code 1; no two calls differ in   *)
(* their status.                                                           *)
(***************************************************************************)
C22_OneStatusCode ==
    /\ \A i \in 1..Len(sent) : sent[i].status = 1
    /\ \A i, k \in 1..Len(sent) : sent[i].status = sent[k].status

\* a join and a leave have both been notified
C22_Witness ==
    /\ \E i \in 1..Len(sent) : sent[i].caller = "report_participant"
    /\ \E i \in 1..Len(sent) : sent[i].caller = "expire_participants"
    /\ Len(sent) = MaxSent

(***************************************************************************)
(* C23: the announcement create_advertisement builds, and the datagram     *)
(* made of it, has no first_seen and no last_seen; and when                *)
(* report_participant inserts an announcement, the first_seen and          *)
(* last_seen it stores are its own ts, also when the announcement came     *)
(* with values of the sender's for the two fields.                         *)
(***************************************************************************)
SeenFields == {"first_seen", "last_seen"}
C23_SenderOmits ==
    /\ SeenFields \cap DOMAIN create_advertisement = {}
    /\ SeenFields \cap DOMAIN parse(OwnDatagram).value = {}
C23_InsertStamps ==
    (ListenerWrites /\ j.id \notin DOMAIN participant_map) =>
        /\ participant_map'[j.id]["first_seen"] = ts
        /\ participant_map'[j.id]["last_seen"] = ts
        /\ \A k \in (DOMAIN j) \ SeenFields : participant_map'[j.id][k] = j[k]
C23_ReceiverAssigns == []C23_SenderOmits /\ [][C23_InsertStamps]_vars

\* a record inserted from an announcement that carried the sender's own
\* first_seen and last_seen, at a time after the clock has moved
C23_Witness ==
    /\ "h2" \in DOMAIN participant_map
    /\ SeenFields \subseteq DOMAIN lifecycle["h2"].announcement
    /\ lifecycle["h2"].announcement["last_seen"] = 5000
    /\ lifecycle["h2"].ingest > 0
    /\ participant_map["h2"]["first_seen"] = lifecycle["h2"].ingest
    /\ "h1" \in DOMAIN participant_map
    /\ pcL = "recv"

(***************************************************************************)
(* C24: nothing is retried.  An iteration of transmit_thread's loop makes  *)
(* one sendto and then sleeps the whole interval; once sendto has failed   *)
(* the Announcer has left its loop and never sends again, and once         *)
(* recvfrom has failed the Listener has left its loop and never receives   *)
(* again.  The step in which one task leaves its loop leaves the process   *)
(* running and the other two tasks where they are.                         *)
(***************************************************************************)
C24_OnePerIteration ==
    (pcA' = pcA /\ tx_sleep_left' > tx_sleep_left) =>
        /\ tx_sleep_left = 0
        /\ tx_sleep_left' = HeartbeatMs
        /\ inflight' <= inflight + 1
C24_AnnouncerGone ==
    pcA = "exited" =>
        /\ pcA' = "exited"
        /\ tx_sleep_left' <= tx_sleep_left
        /\ inflight' <= inflight
C24_ListenerGone ==
    pcL = "exited" =>
        /\ listenerVars' = listenerVars
        /\ inflight' >= inflight
C24_OthersKeepRunning ==
    /\ (pcA # "exited" /\ pcA' = "exited") =>
           process' = "running" /\ UNCHANGED <<listenerVars, reaperVars>>
    /\ (pcL # "exited" /\ pcL' = "exited") =>
           process' = "running" /\ UNCHANGED <<announcerVars, reaperVars>>
C24_NoRetry ==
    [][/\ C24_OnePerIteration
       /\ C24_AnnouncerGone
       /\ C24_ListenerGone
       /\ C24_OthersKeepRunning]_vars

\* both sockets have failed, after the Announcer had sent and slept; the
\* Reaper is in the middle of an eviction
C24_Witness ==
    /\ pcA = "exited"
    /\ pcL = "exited"
    /\ process = "running"
    /\ inflight = MaxInFlight
    /\ pcR = "erase"
    /\ it \in DOMAIN participant_map

(***************************************************************************)
(* C25: a join or a leave is notified by one send_update call, made once.  *)
(* The log of calls grows by one call at a time and only in the step after *)
(* an insertion or before an erase, and the caller moves on whether or not *)
(* the send succeeded.  A call whose send failed is not made again: the    *)
(* next call for the same id comes from the other caller (the next         *)
(* transition of that id), and a refresh of the id makes no call.          *)
(***************************************************************************)
C25_LogGrowsByOne ==
    \/ sent' = sent
    \/ /\ Len(sent') = Len(sent) + 1
       /\ SubSeq(sent', 1, Len(sent)) = sent
C25_SendIsTransition ==
    Len(sent') = Len(sent) + 1 =>
        \/ /\ ListenerSends
           /\ pcL' = "ret"
           /\ ~lifecycle[j.id].refreshed
           /\ lifecycle[j.id].ingest = ts
        \/ /\ ReaperSends
           /\ pcR' = "erase"
C25_FailedNotResent ==
    \A id \in Ids :
        (/\ Len(NotesOf(id)) > 0
         /\ ~Last(NotesOf(id)).delivered
         /\ Len(NotesOf(id)') > Len(NotesOf(id))) =>
            Last(NotesOf(id)').caller # Last(NotesOf(id)).caller
C25_RefreshSilent ==
    /\ (ListenerWrites /\ j.id \in DOMAIN participant_map) =>
           sent' = sent /\ pcL' = "ret"
    /\ ListenerReturns => sent' = sent
    /\ (pcR = "erase" /\ pcR' # "erase") => sent' = sent
C25_AtMostOneAttempt ==
    [][/\ C25_LogGrowsByOne
       /\ C25_SendIsTransition
       /\ C25_FailedNotResent
       /\ C25_RefreshSilent]_vars

\* the join of h1 was not delivered, h1 has been refreshed since, and its
\* leave is the only other call made for it
C25_Witness ==
    /\ Len(NotesOf("h1")) = 2
    /\ ~NotesOf("h1")[1].delivered
    /\ NotesOf("h1")[1].caller = "report_participant"
    /\ NotesOf("h1")[2].caller = "expire_participants"
    /\ ~NotesOf("h1")[2].delivered
    /\ "h1" \notin DOMAIN participant_map
    /\ pcL = "recv"
    /\ now = MaxTime

(***************************************************************************)
(* C26: the Reaper never stops.  No step of any thread ends the process    *)
(* the Reaper runs in, the Reaper's position stays inside the loop of      *)
(* expire_thread, and a scan that has reached the end of the map returns   *)
(* to the start of the loop with the 250 ms sleep ahead of the next scan.  *)
(***************************************************************************)
C26_ReaperNeverStops ==
    [][/\ process' = "running"
       /\ pcR' \in {"start", "copy", "lock", "send", "erase"}
       /\ (pcR = "copy" /\ pcR' = "start") => sleep_left' = ExpireSleepMs]_vars

(***************************************************************************)
(* C27: the announcement the Announcer sends, whatever the configuration,  *)
(* has the seven members id, address, active, architecture,                *)
(* operating_system, release and provides, both as built by                *)
(* create_advertisement and as written in the datagram.                    *)
(***************************************************************************)
SelfDescription ==
    {"id", "address", "active", "architecture", "operating_system", "release",
     "provides"}
MemberKeys(text) == {text.members[i].key : i \in DOMAIN text.members}
C27_FullSelfDescription ==
    /\ SelfDescription \subseteq DOMAIN create_advertisement
    /\ SelfDescription \subseteq MemberKeys(OwnDatagram.text)

\* an announcement of a node whose configuration names no service is in
\* flight
C27_Witness ==
    /\ inflight > 0
    /\ tx_sleep_left = HeartbeatMs
    /\ "provides" \in DOMAIN configuration
    /\ Len(configuration["provides"]) = MaxProvides
    /\ \A i \in DOMAIN configuration["provides"] :
           "service" \notin DOMAIN configuration["provides"][i]

(***************************************************************************)
(* C28: round trip.  For the announcement the node builds, and for every   *)
(* announcement a peer sends, dump followed by parse gives back the same   *)
(* record, and doing it a second time gives the same record and the same   *)
(* text again; so the record the Listener hands to report_participant for  *)
(* one of the node's own datagrams is the record create_advertisement      *)
(* built.                                                                  *)
(***************************************************************************)
Reparsed(o) == parse([text |-> dump(o)]).value
RoundTrip(o) ==
    /\ ~Throws(parse([text |-> dump(o)]))
    /\ Reparsed(o) = o
    /\ Reparsed(Reparsed(o)) = o
    /\ dump(Reparsed(o)) = dump(o)
C28_Samples ==
    {parse(d).value : d \in ForgedDatagrams \cup RemoteDatagrams}
C28_RoundTripHolds ==
    /\ RoundTrip(create_advertisement)
    /\ \A o \in C28_Samples : RoundTrip(o)
C28_DecodedAsBuilt ==
    (pcL = "recv" /\ pcL' = "lock" /\ inflight' < inflight) =>
        j' = create_advertisement
ConfiguredServices ==
    LET with == SelectSeq(configured_provides, LAMBDA d : "service" \in DOMAIN d)
    IN  [i \in DOMAIN with |-> with[i]["service"]]
C29_ProvidesIsSequence ==
    create_advertisement["provides"] = JArray(ConfiguredServices)

(***************************************************************************)
(* C30: the age computed by expire_participants is the true age: whenever  *)
(* the Reaper judges the record it copied, the last_seen of the copy is    *)
(* not later than the current_timestamp the scan captured at its start,    *)
(* so the unsigned difference does not wrap.                               *)
(***************************************************************************)
C30_AgeNeverWraps ==
    [][ReaperJudges => p["last_seen"] <= current_timestamp]_vars

(***************************************************************************)
(* C31: no leave notification is sent, and no record erased, less than     *)
(* 600 ms after the last_seen its record holds (the ingest timestamp of    *)
(* its latest insert or refresh); and a record inserted after the scan     *)
(* captured its timestamp is not found stale by that scan.                 *)
(***************************************************************************)
C31_LeaveStep ==
    ReaperSends => now - participant_map[it]["last_seen"] >= StaleAfter
C31_EraseStep ==
    (pcR = "erase" /\ pcR' # "erase") =>
        now - participant_map[it]["last_seen"] >= StaleAfter
C31_InsertedDuringScan ==
    (/\ ReaperJudges
     /\ it \in DOMAIN participant_map
     /\ participant_map[it]["first_seen"] > current_timestamp) =>
        pcR' # "send"
C31_NotEvictedEarly ==
    [][C31_LeaveStep /\ C31_EraseStep /\ C31_InsertedDuringScan]_vars

(***************************************************************************)
(* C32: when the Listener has decoded an announcement that lacks id,       *)
(* address or architecture, report_participant gives it up before locking: *)
(* in that step participant_map and the log of notifications stay as they  *)
(* are, the Listener does not go on to the locked part, and the mutex is   *)
(* not held by the Listener afterwards.                                    *)
(***************************************************************************)
Incomplete(o) == ~({"id", "address", "architecture"} \subseteq DOMAIN o)
C32_RejectStep ==
    (pcL = "recv" /\ j' # j /\ Incomplete(j')) =>
        /\ participant_map' = participant_map
        /\ sent' = sent
        /\ participant_mutex' = participant_mutex
        /\ participant_mutex' # "listener"
        /\ pcL' \notin {"lock", "send", "ret"}
C32_IncompleteRejected == [][C32_RejectStep]_vars

\* an announcement without address and architecture has been given up
\* while the registry held a record and the Reaper was in its locked part
C32_Witness ==
    /\ "id" \in DOMAIN j
    /\ Incomplete(j)
    /\ pcL = "recv"
    /\ DOMAIN participant_map = {"h1"}
    /\ Len(sent) = 1
    /\ participant_mutex = "reaper"

(***************************************************************************)
(* The Listener and the Reaper under a fair scheduler.  The clock goes on  *)
(* past MaxTime once the Listener is gone, far enough for every record to  *)
(* age beyond the threshold, and where the clock of the model ends a       *)
(* sleeping thread still wakes up.                                         *)
(***************************************************************************)
Horizon == IF pcL = "exited" THEN MaxTime + StaleAfter + TickMs ELSE MaxTime
TickLive ==
    /\ process = "running"
    /\ now' = IF now + TickMs <= Horizon THEN now + TickMs ELSE now
    /\ sleep_left' = IF sleep_left > TickMs THEN sleep_left - TickMs ELSE 0
    /\ tx_sleep_left' = IF tx_sleep_left > TickMs THEN tx_sleep_left - TickMs ELSE 0
    /\ UNCHANGED <<pcA, inflight, configuration, received>>
    /\ UNCHANGED <<process, participant_map, participant_mutex, listenerVars,
                   pcR, current_timestamp, it, p, sent, history>>

\* one peer, and bytes that are not JSON
LiveDatagrams ==
    { [text |-> dump(Announcement("h1", "10.0.0.5", "x86_64"))],
      [text |-> [kind |-> "garbage"]] }

NextLive ==
    \/ TickLive
    \/ \E d \in LiveDatagrams : Receive(d)
    \/ ReceiveError
    \/ ReportLocked
    \/ \E failed \in BOOLEAN : ReportSend(failed)
    \/ ReportReturn
    \/ ExpireStart
    \/ ExpireCopy
    \/ ExpireDone
    \/ ExpireCheck
    \/ \E failed \in BOOLEAN : ExpireSend(failed)
    \/ ExpireErase

\* a running thread takes its next step; a thread blocked on the mutex gets
\* it if it is free again and again; the clock advances
Fairness ==
    /\ WF_vars(TickLive)
    /\ SF_vars(ReportLocked)
    /\ WF_vars(\E failed \in BOOLEAN : ReportSend(failed))
    /\ WF_vars(ReportReturn)
    /\ WF_vars(ExpireStart)
    /\ WF_vars(ExpireCopy)
    /\ WF_vars(ExpireDone)
    /\ SF_vars(ExpireCheck)
    /\ WF_vars(\E failed \in BOOLEAN : ExpireSend(failed))
    /\ WF_vars(ExpireErase)

LiveSpec == Init /\ [][NextLive]_vars /\ Fairness

(***************************************************************************)
(* C33: participant_mutex never blocks the two threads for good.  A thread *)
(* that holds the mutex releases it, also when the send_update call it     *)
(* makes under the lock fails, and a thread that waits for the mutex gets  *)
(* it.  (The obligations end with the process, and with the log of         *)
(* notifications of the model when it is full.)                            *)
(***************************************************************************)
LogFull == Len(sent) = MaxSent
Over == process = "aborted" \/ LogFull
C33_ListenerReleases ==
    (participant_mutex = "listener") ~> (participant_mutex # "listener" \/ Over)
C33_ReaperReleases ==
    (participant_mutex = "reaper") ~> (participant_mutex # "reaper" \/ Over)
C33_ListenerAcquires ==
    (pcL = "lock") ~> (participant_mutex = "listener" \/ Over)
C33_ReaperAcquires ==
    (pcR = "lock") ~> (pcR # "lock" \/ Over)
C33_NoDeadlock ==
    /\ C33_ListenerReleases
    /\ C33_ReaperReleases
    /\ C33_ListenerAcquires
    /\ C33_ReaperAcquires

\* the Listener waits for the mutex the Reaper holds, after a send_update
\* call under the lock has failed, with room in the log
C33_Witness ==
    /\ pcL = "lock"
    /\ participant_mutex = "reaper"
    /\ pcR = "send"
    /\ Len(sent) = 1
    /\ ~sent[1].delivered
    /\ process = "running"

(***************************************************************************)
(* C34: whenever participant_mutex is free (neither thread is inside its   *)
(* locked part), for every id the number of send_update calls made for its *)
(* insertions minus the number made for its evictions is 1 if the id is in *)
(* participant_map and 0 if it is not; so all joins minus all leaves is    *)
(* the number of records.                                                  *)
(***************************************************************************)
Joins(id) ==
    Len(SelectSeq(sent, LAMBDA n : n.id = id /\ n.caller = "report_participant"))
Leaves(id) ==
    Len(SelectSeq(sent, LAMBDA n : n.id = id /\ n.caller = "expire_participants"))
AllJoins == Len(SelectSeq(sent, LAMBDA n : n.caller = "report_participant"))
AllLeaves == Len(SelectSeq(sent, LAMBDA n : n.caller = "expire_participants"))
C34_JoinsMinusLeaves ==
    participant_mutex = "free" =>
        /\ \A id \in Ids :
               Joins(id) - Leaves(id) = IF id \in DOMAIN participant_map THEN 1 ELSE 0
        /\ AllJoins - AllLeaves = Cardinality(DOMAIN participant_map)

\* both threads are idle; h1 has joined, left and joined again
C34_Witness ==
    /\ participant_mutex = "free"
    /\ pcL = "recv"
    /\ pcR = "start"
    /\ Joins("h1") = 2
    /\ Leaves("h1") = 1
    /\ DOMAIN participant_map = {"h1"}

(***************************************************************************)
(* C35: the send_update call of an eviction passes the address and the     *)
(* architecture that the call of the insertion of the same stay of the id  *)
(* passed (the call made for the id just before), whatever address or      *)
(* architecture the peer announced in between.                             *)
(***************************************************************************)
C35_LeaveStep ==
    ReaperSends =>
        /\ Len(NotesOf(it)) > 0
        /\ Last(NotesOf(it)).caller = "report_participant"
        /\ Last(sent').id = it
        /\ Last(sent').caller = "expire_participants"
        /\ Last(sent').address = Last(NotesOf(it)).address
        /\ Last(sent').provider_architecture =
               Last(NotesOf(it)).provider_architecture
C35_LeaveMatchesJoin == [][C35_LeaveStep]_vars

\* h1 joined from 10.0.0.5, was refreshed, and its leave has been sent
\* while an announcement of h1 from 10.0.0.9 waits for the mutex
C35_Witness ==
    /\ pcR = "erase"
    /\ it = "h1"
    /\ lifecycle["h1"].refreshed
    /\ Len(NotesOf("h1")) = 2
    /\ NotesOf("h1")[1].address = "10.0.0.5"
    /\ NotesOf("h1")[2].address = "10.0.0.5"
    /\ NotesOf("h1")[2].provider_architecture = "x86_64"
    /\ pcL = "lock"
    /\ j["id"] = "h1"
    /\ j["address"] = "10.0.0.9"

(***************************************************************************)
(* C36: once receive_thread has returned, the registry drains.  From then  *)
(* on no id is added, every send_update call is the one call of an         *)
(* eviction (calls made plus records still to evict stays constant, so an  *)
(* empty registry means no further call), and, the log of the model having *)
(* room for the calls still to make, participant_map becomes empty and     *)
(* stays empty.                                                            *)
(***************************************************************************)
\* records whose leave has not been sent yet
ToEvict ==
    Cardinality(DOMAIN participant_map) - (IF pcR = "erase" THEN 1 ELSE 0)
C36_DrainStep ==
    pcL = "exited" =>
        /\ DOMAIN participant_map' \subseteq DOMAIN participant_map
        /\ Len(sent') + ToEvict' = Len(sent) + ToEvict
        /\ (Len(sent') > Len(sent) => ReaperSends)
C36_Drains ==
    (pcL = "exited" /\ Len(sent) + ToEvict <= MaxSent)
        ~> [](participant_map = <<>>)
C36_RegistryDrains == C36_Drains /\ [][C36_DrainStep]_vars

\* the Listener is gone and the record it left behind has been evicted,
\* at a time the record could only reach by ageing
C36_Witness ==
    /\ pcL = "exited"
    /\ participant_map = <<>>
    /\ Len(sent) = 2
    /\ Last(sent).caller = "expire_participants"
    /\ pcR = "start"
    /\ now > MaxTime

(***************************************************************************)
(* receive_thread's buffer.  recvfrom is given sizeof (buffer) as the      *)
(* length: it stores at most that many bytes of the datagram and returns   *)
(* the number stored; buffer[received] = '\0' follows.                     *)
(***************************************************************************)
recvfrom(len) == IF len <= BufferSize THEN len ELSE BufferSize

\* a datagram of len bytes arrives
ReceiveBytes(len) ==
    /\ process = "running"
    /\ pcL = "recv"
    /\ received' = recvfrom(len)
    /\ UNCHANGED <<now, process, participant_map, participant_mutex,
                   listenerVars, reaperVars, sent, announcerVars, configuration,
                   history>>

NextBuffer == \E len \in 0..MaxDatagramLen : ReceiveBytes(len)

SpecBuffer == Init /\ [][NextBuffer]_vars

(***************************************************************************)
(* C37: whatever the length of the datagram, the index at which            *)
(* receive_thread writes the terminating NUL, buffer[received], is inside  *)
(* the buffer.                                                             *)
(***************************************************************************)
C37_NulInsideBuffer == received >= 0 /\ received < BufferSize

(***************************************************************************)
(* C38: every record in participant_map is well formed: its id is the key  *)
(* it is stored under, its address and architecture are strings, and its   *)
(* first_seen and last_seen are numbers; and the copy the Reaper judges    *)
(* has the members expire_participants reads.                              *)
(***************************************************************************)
WellFormed(id, o) ==
    /\ {"id", "address", "architecture", "first_seen", "last_seen"}
           \subseteq DOMAIN o
    /\ o["id"] = id
    /\ o["address"] \in STRING
    /\ o["architecture"] \in STRING
    /\ o["first_seen"] \in Nat
    /\ o["last_seen"] \in Nat
C38_RecordsWellFormed ==
    /\ \A id \in DOMAIN participant_map : WellFormed(id, participant_map[id])
    /\ pcR \in {"lock", "send", "erase"} => WellFormed(it, p)

\* two records are stored, one of them refreshed, and the Reaper holds a
\* copy of the other
C38_Witness ==
    /\ DOMAIN participant_map = {"h1", "h2"}
    /\ lifecycle["h1"].refreshed
    /\ participant_map["h1"]["last_seen"] > participant_map["h1"]["first_seen"]
    /\ pcR = "lock"
    /\ it = "h2"

====
